---- MODULE Spec2Model ----
(***************************************************************************)
(* Verification model of uwbmrb/rcs: chemical-shift scoring and            *)
(* classification (get_z_score, get_z_score_full, classify_shift), the     *)
(* two extractors (get_chemical_shifts, get_coordinates), the per-entry    *)
(* cache (get_protein, dump_protein, load_protein) and the result stages   *)
(* (print_result_stages, results_a, results_b, results_c).                 *)
(*                                                                         *)
(* Shifts, means, standard deviations, Z-scores and sigma thresholds are   *)
(* fixed-point integers in thousandths (8.337 is 8337, 1.5 is 1500).       *)
(***************************************************************************)
EXTENDS Integers, Sequences, FiniteSets, TLC

VARIABLES
    phase,          \* which part of the program this behaviour runs
    pc,             \* position inside the running function
    res,            \* get_z_score*: argument res
    amide_cs_val,   \* get_z_score*: argument amide_cs (thousandths of ppm)
    scorer,         \* which function produced cs_sigma
    cs_sigma,       \* the Z-score handed to classify_shift (thousandths)
    outlier_sigma,  \* classify_shift: argument outlier_sigma (thousandths)
    shift_class,    \* classify_shift: returned value
    auth_tag,       \* the numbering flag (auth_tag / use_auth_tag)
    pass,           \* 1: the rows as supplied, 2: the same rows in another order
    first_result,   \* what pass 1 returned
    cs_input,       \* Atom_chem_shift rows as the file supplies them
    cs_data,        \* cs.data: the rows in memory (the loop rewrites a missing chain)
    cs_i,           \* get_chemical_shifts: index of the next row
    tag_ids,        \* get_chemical_shifts: id1..id6, the tags the loop reads
    amide_cs,       \* get_chemical_shifts: amide_cs
    aromatic_cs,    \* get_chemical_shifts: aromatic_cs
    cif_rows,       \* atom_site.getRowList()
    max_models,     \* get_coordinates: max_models
    key_cols,       \* get_coordinates: the columns the key is built from
    model,          \* get_coordinates: loop variable model
    cif_i,          \* get_coordinates: index of the next row of the inner loop
    pdb,            \* get_coordinates: pdb, the map of the current model
    pdb_models,     \* get_coordinates: pdb_models
    files,          \* the directory proteins/: file name -> JSON text, or absent
    gp_pc,          \* per entry: position of its get_protein call
    build_anyway,   \* per entry: get_protein's argument build_anyway
    protein,        \* per entry: get_protein's local variable protein
    via,            \* per entry: the branch that set protein (build or load)
    persisted,      \* per entry: the value its cache file holds, as written
    result,         \* per entry: what its last call returned, None in a call
    audit,          \* per entry: what its current or last call did (history)
    script,         \* which print_result_stages runs: noe_analysis or survey
    proteins_dict,  \* entry -> Protein, as the result stages hold it
    exceptions_map_entries, \* entry -> reason, for the entries that failed
    loaded_dict,    \* proteins_dict as get_proteins_dict_multi returned it
    reasons_dict,   \* print_result_stages: the dict of reason counts
    printed         \* what has been printed: report name -> content

scoreVars == <<res, amide_cs_val, scorer, cs_sigma, outlier_sigma, shift_class>>

shiftVars == <<cs_input, cs_data, cs_i, tag_ids, amide_cs, aromatic_cs>>

coordVars == <<cif_rows, max_models, key_cols, model, cif_i, pdb, pdb_models>>

extractVars == <<auth_tag, pass, first_result, shiftVars, coordVars>>

cacheVars == <<files, gp_pc, build_anyway, protein, via, persisted, result,
               audit>>

aggVars == <<script, proteins_dict, exceptions_map_entries, loaded_dict,
             reasons_dict, printed>>

vars == <<phase, pc, scoreVars, extractVars, cacheVars, aggVars>>

(***************************************************************************)
(* Bounds of the model.                                                    *)
(***************************************************************************)
MaxShiftK == 12     \* shift values 7.000, 7.250, ... 7.000 + 0.250 * MaxShiftK
MaxSigmaK == 6      \* sigma values -0.5 * MaxSigmaK, ..., 0.5 * MaxSigmaK

ShiftValues == {7000 + 250 * k : k \in 0..MaxShiftK}

SigmaValues == {500 * k : k \in (0 - MaxSigmaK)..MaxSigmaK}

(***************************************************************************)
(* Reference tables of get_z_score_full and of get_z_score.                *)
(***************************************************************************)
ReferenceResidues ==
    {"ALA", "ARG", "ASN", "ASP", "CYS", "GLN", "GLU", "GLY", "HIS", "ILE",
     "LEU", "LYS", "MET", "PHE", "SER", "THR", "TRP", "TYR", "VAL"}

\* residue names that are no key of the tables
UnknownResidues == {"UNK", "DA"}

ResidueNames == ReferenceResidues \cup UnknownResidues

m_full ==
    [ALA |-> 8193, ARG |-> 8242, ASN |-> 8331, ASP |-> 8300, CYS |-> 8379,
     GLN |-> 8216, GLU |-> 8330, GLY |-> 8327, HIS |-> 8258, ILE |-> 8263,
     LEU |-> 8219, LYS |-> 8175, MET |-> 8258, PHE |-> 8337, SER |-> 8277,
     THR |-> 8235, TRP |-> 8270, TYR |-> 8296, VAL |-> 8273]

sd_full ==
    [ALA |-> 642, ARG |-> 1064, ASN |-> 983, ASP |-> 592, CYS |-> 697,
     GLN |-> 657, GLU |-> 750, GLY |-> 770, HIS |-> 734, ILE |-> 694,
     LEU |-> 652, LYS |-> 670, MET |-> 1277, PHE |-> 732, SER |-> 602,
     THR |-> 641, TRP |-> 782, TYR |-> 741, VAL |-> 795]

m_short ==
    [ALA |-> 8194, ARG |-> 8234, ASN |-> 8324, ASP |-> 8300, CYS |-> 8386,
     GLN |-> 8219, GLU |-> 8330, GLY |-> 8330, HIS |-> 8247, ILE |-> 8262,
     LEU |-> 8215, LYS |-> 8177, MET |-> 8251, PHE |-> 8335, SER |-> 8277,
     THR |-> 8232, TRP |-> 8264, TYR |-> 8289, VAL |-> 8270]

sd_short ==
    [ALA |-> 577, ARG |-> 601, ASN |-> 610, ASP |-> 558, CYS |-> 670,
     GLN |-> 569, GLU |-> 576, GLY |-> 619, HIS |-> 666, ILE |-> 674,
     LEU |-> 627, LYS |-> 589, MET |-> 575, PHE |-> 710, SER |-> 568,
     THR |-> 610, TRP |-> 761, TYR |-> 721, VAL |-> 659]

Abs(x) == IF x < 0 THEN 0 - x ELSE x

(***************************************************************************)
(* round(n / d, 3) in thousandths, for d > 0: the outcomes of Python's      *)
(* round on the float quotient.  The quotient n * 1000 / d is rounded to    *)
(* the nearest integer; where it lies exactly half way between two          *)
(* integers the float quotient is not exactly the tie, and either          *)
(* neighbour can come out, so both are outcomes.                           *)
(***************************************************************************)
round3(n, d) ==
    LET q == (n * 1000) \div d          \* floor
        r == (n * 1000) % d             \* 0 <= r < d
    IN  IF 2 * r < d THEN {q}
        ELSE IF 2 * r > d THEN {q + 1}
        ELSE {q, q + 1}

\* a plausible slip: truncation toward minus infinity instead of rounding
round3_floor(n, d) == {(n * 1000) \div d}

\* the set of values get_z_score_full(res, amide_cs) can return
zscore_with(r, v, m, sd) ==
    IF r \in DOMAIN m /\ r \in DOMAIN sd
        THEN round3(v - m[r], sd[r])
        ELSE {0}                        \* except KeyError: z_score = 0.00

\* mutants of the scoring functions
zscore_no_fallback(r, v, m, sd) ==
    IF r \in DOMAIN m /\ r \in DOMAIN sd
        THEN round3(v - m[r], sd[r])
        ELSE round3(v - 8000, 1000)

zscore_floor(r, v, m, sd) ==
    IF r \in DOMAIN m /\ r \in DOMAIN sd
        THEN round3_floor(v - m[r], sd[r])
        ELSE {0}

get_z_score_full_nofallback(r, v) == zscore_no_fallback(r, v, m_full, sd_full)

get_z_score_full_floor(r, v) == zscore_floor(r, v, m_full, sd_full)

get_z_score_full_mixed(r, v) == zscore_with(r, v, m_full, sd_short)

get_z_score_full(r, v) == zscore_with(r, v, m_full, sd_full)

get_z_score(r, v) == zscore_with(r, v, m_short, sd_short)

(***************************************************************************)
(* classify_shift: the three tests in the code's order; "None" is what a   *)
(* call returns that falls through all three.                              *)
(***************************************************************************)
classify_shift_strict_up(cs, o) ==
    IF cs < (0 - 1) * o THEN "upfield"
    ELSE IF cs >= o THEN "downfield"
    ELSE IF Abs(cs) < o THEN "non_outlier"
    ELSE "None"

classify_shift_strict_down(cs, o) ==
    IF cs <= (0 - 1) * o THEN "upfield"
    ELSE IF cs > o THEN "downfield"
    ELSE IF Abs(cs) <= o THEN "non_outlier"
    ELSE "None"

classify_shift(cs, o) ==
    IF cs <= (0 - 1) * o THEN "upfield"
    ELSE IF cs >= o THEN "downfield"
    ELSE IF Abs(cs) < o THEN "non_outlier"
    ELSE "None"

ShiftClasses == {"upfield", "downfield", "non_outlier"}

(***************************************************************************)
(* Values of the variables of a part of the program that a behaviour does  *)
(* not run.                                                                *)
(***************************************************************************)
EmptyMap == [x \in {} |-> x]

NoIds == [id1 |-> "unset", id2 |-> "unset", id3 |-> "unset",
          id4 |-> "unset", id5 |-> "unset", id6 |-> "unset"]

IdleScore ==
    /\ res = "ALA"
    /\ amide_cs_val = 0
    /\ outlier_sigma = 0
    /\ scorer = "none"
    /\ cs_sigma = 0
    /\ shift_class = "unset"

IdleShifts ==
    /\ cs_input = <<>>
    /\ cs_data = <<>>
    /\ cs_i = 1
    /\ tag_ids = NoIds
    /\ amide_cs = EmptyMap
    /\ aromatic_cs = EmptyMap

IdleCoords ==
    /\ cif_rows = <<>>
    /\ max_models = 0
    /\ key_cols = <<>>
    /\ model = 1
    /\ cif_i = 1
    /\ pdb = EmptyMap
    /\ pdb_models = EmptyMap

IdleCache ==
    /\ files = EmptyMap
    /\ gp_pc = EmptyMap
    /\ build_anyway = EmptyMap
    /\ protein = EmptyMap
    /\ via = EmptyMap
    /\ persisted = EmptyMap
    /\ result = EmptyMap
    /\ audit = EmptyMap

IdleAggregate ==
    /\ script = "none"
    /\ proteins_dict = EmptyMap
    /\ exceptions_map_entries = EmptyMap
    /\ loaded_dict = EmptyMap
    /\ reasons_dict = EmptyMap
    /\ printed = EmptyMap

IdleExtract ==
    /\ auth_tag = FALSE
    /\ pass = 1
    /\ first_result = EmptyMap
    /\ IdleShifts
    /\ IdleCoords

(***************************************************************************)
(* Scoring and classification of one amide.                                *)
(***************************************************************************)
InitScore ==
    /\ phase = "score"
    /\ pc = "start"
    /\ res \in ResidueNames
    /\ amide_cs_val \in ShiftValues
    /\ outlier_sigma \in SigmaValues
    /\ scorer = "none"
    /\ cs_sigma = 0
    /\ shift_class = "unset"
    /\ IdleExtract
    /\ IdleCache
    /\ IdleAggregate

\* get_z_score_full(res, amide_cs)
GetZScoreFull ==
    /\ phase = "score" /\ pc = "start"
    /\ cs_sigma' \in get_z_score_full(res, amide_cs_val)
    /\ scorer' = "get_z_score_full"
    /\ pc' = "scored"
    /\ UNCHANGED <<phase, res, amide_cs_val, outlier_sigma, shift_class>>
    /\ UNCHANGED <<extractVars, cacheVars, aggVars>>

\* get_z_score(res, amide_cs), as get_chemical_shifts calls it for an amide row
GetZScore ==
    /\ phase = "score" /\ pc = "start"
    /\ cs_sigma' \in get_z_score(res, amide_cs_val)
    /\ scorer' = "get_z_score"
    /\ pc' = "scored"
    /\ UNCHANGED <<phase, res, amide_cs_val, outlier_sigma, shift_class>>
    /\ UNCHANGED <<extractVars, cacheVars, aggVars>>

\* results_c reads atom_amide.cs_sigma of a model it was handed: any value
ReadCsSigma ==
    /\ phase = "score" /\ pc = "start"
    /\ cs_sigma' \in SigmaValues
    /\ scorer' = "atom_amide"
    /\ pc' = "scored"
    /\ UNCHANGED <<phase, res, amide_cs_val, outlier_sigma, shift_class>>
    /\ UNCHANGED <<extractVars, cacheVars, aggVars>>

\* shift_class = classify_shift(atom_amide.cs_sigma, outlier_sigma)
ClassifyShift ==
    /\ phase = "score" /\ pc = "scored"
    /\ shift_class' = classify_shift(cs_sigma, outlier_sigma)
    /\ pc' = "classified"
    /\ UNCHANGED <<phase, res, amide_cs_val, scorer, cs_sigma, outlier_sigma>>
    /\ UNCHANGED <<extractVars, cacheVars, aggVars>>

NextScore == GetZScoreFull \/ GetZScore \/ ReadCsSigma \/ ClassifyShift

SpecScore == InitScore /\ [][NextScore]_vars

(***************************************************************************)
(* The extractors.  A row is a record of the columns the code reads, named *)
(* by tag.  Keys are tuples of the values of the selected columns.         *)
(***************************************************************************)
MaxShiftRows == 2   \* Atom_chem_shift rows of one entry
MaxCifRows == 2     \* atom_site rows of one entry

aromatic_atoms ==
    [PHE |-> {"CG", "CD1", "CD2", "CE1", "CE2", "CZ", "HD1", "HD2", "HE1", "HE2", "HZ"},
     TYR |-> {"CG", "CD1", "CD2", "CE1", "CE2", "CZ", "HD1", "HD2", "HE1", "HE2", "HH"},
     TRP |-> {"CD2", "CE2", "CE3", "CZ2", "CZ3", "CH2", "HE3", "HZ2", "HZ3", "HH2", "HE1"},
     HIS |-> {"CG", "ND1", "CD2", "CE1", "NE2", "HD1", "HD2", "HE1", "HE2", "xx", "yy"}]

\* dict assignment f[k] = v
Put(f, k, v) == [x \in DOMAIN f \cup {k} |-> IF x = k THEN v ELSE f[x]]

\* the Atom_chem_shift rows a file can hold: an amide of a plain and of an
\* aromatic residue, a ring atom, a non-ring atom of an aromatic residue,
\* another atom, a ring-atom name on a plain residue; the chain given or
\* missing ('.'); two values, so that two rows can name the same atom with
\* different shifts (an entry with two assigned shift lists)
ShiftRows ==
    {[Auth_seq_ID |-> "11", Comp_index_ID |-> "1", Auth_asym_ID |-> c,
      Comp_ID |-> ra[1], Atom_ID |-> ra[2], Val |-> va[1],
      Ambiguity_code |-> va[2]] :
        c \in {".", "B"},
        ra \in {<<"ALA", "H">>, <<"PHE", "H">>, <<"PHE", "HZ">>,
                <<"PHE", "CA">>, <<"ALA", "CA">>, <<"ALA", "HZ">>},
        va \in {<<8000, "1">>, <<9500, "2">>}}

SeqsUpTo(S, n) == UNION {[1..k -> S] : k \in 0..n}

\* the tags get_chemical_shifts reads, by the flag
select_tags(flag) ==
    [id1 |-> IF flag THEN "Auth_seq_ID" ELSE "Comp_index_ID",
     id2 |-> "Auth_asym_ID",
     id3 |-> "Comp_ID",
     id4 |-> "Atom_ID",
     id5 |-> "Val",
     id6 |-> "Ambiguity_code"]

\* d[id2] = 'A' where the chain is missing
fix_chain(d, ids) ==
    IF d[ids.id2] = "." THEN [d EXCEPT ![ids.id2] = "A"] ELSE d

\* mutant: every atom of an aromatic residue is recorded
is_ring_atom_row_any(d, ids) == d[ids.id3] \in DOMAIN aromatic_atoms

\* if d[id4] == 'H'
is_amide_row(d, ids) == d[ids.id4] = "H"

\* if d[id3] in aromatic_atoms.keys()
is_aromatic_row(d, ids) == d[ids.id3] \in DOMAIN aromatic_atoms

\* ... and d[id4] in aromatic_atoms[d[id3]]
is_ring_atom_row(d, ids) ==
    /\ d[ids.id3] \in DOMAIN aromatic_atoms
    /\ d[ids.id4] \in aromatic_atoms[d[ids.id3]]

amide_key(d, ids) == <<d[ids.id1], d[ids.id2], d[ids.id3], d[ids.id4]>>

aromatic_key(d, ids) == <<d[ids.id1], d[ids.id2], d[ids.id3]>>

InitShifts ==
    /\ phase = "shifts"
    /\ pc = "tags"
    /\ auth_tag \in BOOLEAN
    /\ pass = 1
    /\ first_result = EmptyMap
    /\ cs_input \in SeqsUpTo(ShiftRows, MaxShiftRows)
    /\ cs_data = cs_input
    /\ cs_i = 1
    /\ tag_ids = NoIds
    /\ amide_cs = EmptyMap
    /\ aromatic_cs = EmptyMap
    /\ IdleCoords
    /\ IdleScore
    /\ IdleCache
    /\ IdleAggregate

\* tag_list.index(...): the columns of the loop
ReadTags ==
    /\ phase = "shifts" /\ pc = "tags"
    /\ tag_ids' = select_tags(auth_tag)
    /\ pc' = "rows"
    /\ UNCHANGED <<phase, scoreVars, cacheVars, aggVars, auth_tag, pass, first_result, coordVars>>
    /\ UNCHANGED <<cs_input, cs_data, cs_i, amide_cs, aromatic_cs>>

\* one pass of "for d in cs.data"
ProcessShiftRow ==
    /\ phase = "shifts" /\ pc = "rows"
    /\ cs_i <= Len(cs_data)
    /\ LET d0 == cs_data[cs_i]
           amide == is_amide_row(d0, tag_ids)
           d1 == IF amide THEN fix_chain(d0, tag_ids) ELSE d0
           d2 == IF is_aromatic_row(d1, tag_ids)
                    THEN fix_chain(d1, tag_ids) ELSE d1
           k == aromatic_key(d2, tag_ids)
           old == IF k \in DOMAIN aromatic_cs THEN aromatic_cs[k] ELSE EmptyMap
       IN  /\ \E z \in get_z_score(d1[tag_ids.id3], d1[tag_ids.id5]) :
                amide_cs' =
                    IF amide
                        THEN Put(amide_cs, amide_key(d1, tag_ids),
                                 <<d1[tag_ids.id5], z>>)
                        ELSE amide_cs
           /\ aromatic_cs' =
                IF is_ring_atom_row(d2, tag_ids)
                    THEN Put(aromatic_cs, k,
                             Put(old, d2[tag_ids.id4],
                                 <<d2[tag_ids.id5], d2[tag_ids.id6]>>))
                    ELSE aromatic_cs
           /\ cs_data' = [cs_data EXCEPT ![cs_i] = d2]
    /\ cs_i' = cs_i + 1
    /\ UNCHANGED <<phase, pc, scoreVars, cacheVars, aggVars, auth_tag, pass, first_result, coordVars>>
    /\ UNCHANGED <<cs_input, tag_ids>>

\* return amide_cs, aromatic_cs, entity_size, assembly_size
ReturnShifts ==
    /\ phase = "shifts" /\ pc = "rows"
    /\ cs_i > Len(cs_data)
    /\ pc' = "done"
    /\ UNCHANGED <<phase, scoreVars, cacheVars, aggVars, extractVars>>

(***************************************************************************)
(* get_coordinates.                                                        *)
(***************************************************************************)
\* the atom_site rows a file can hold, in one or two models: a ring atom, an
\* amide hydrogen, an amide hydrogen the author named HN, another atom
CifRows ==
    {[pdbx_PDB_model_num |-> mn,
      label_seq_id |-> "1", label_asym_id |-> "A",
      label_comp_id |-> n[1], label_atom_id |-> n[2],
      auth_seq_id |-> "11", auth_asym_id |-> "B",
      auth_comp_id |-> n[3], auth_atom_id |-> n[4],
      Cartn |-> xyz] :
        mn \in {1, 2},
        n \in {<<"PHE", "CZ", "PHE", "CZ">>, <<"ALA", "H", "ALA", "H">>,
               <<"ALA", "H", "ALA", "HN">>, <<"ALA", "CA", "ALA", "CA">>},
        xyz \in {<<0, 0, 0>>, <<3, 4, 0>>}}

NonEmptySeqsUpTo(S, n) == UNION {[1..k -> S] : k \in 1..n}

\* the columns the key of a row is built from, by the flag
select_key_cols(flag) ==
    IF flag
        THEN <<"auth_seq_id", "auth_asym_id", "auth_comp_id", "auth_atom_id">>
        ELSE <<"label_seq_id", "label_asym_id", "label_comp_id", "label_atom_id">>

\* int(atom_site.getValue('pdbx_PDB_model_num', -1)): the last row's model
last_model_num(rows) == rows[Len(rows)].pdbx_PDB_model_num

\* if dat[atom_id] == 'H' or dat[comp_id] in aromatic_atoms.keys()
is_needed_row(dat) ==
    \/ dat.label_atom_id = "H"
    \/ dat.label_comp_id \in DOMAIN aromatic_atoms

coord_key(dat, cols) == <<dat[cols[1]], dat[cols[2]], dat[cols[3]], dat[cols[4]]>>

InitCoords ==
    /\ phase = "coords"
    /\ pc = "cols"
    /\ auth_tag \in BOOLEAN
    /\ pass = 1
    /\ first_result = EmptyMap
    /\ cif_rows \in NonEmptySeqsUpTo(CifRows, MaxCifRows)
    /\ max_models = 0
    /\ key_cols = <<>>
    /\ model = 1
    /\ cif_i = 1
    /\ pdb = EmptyMap
    /\ pdb_models = EmptyMap
    /\ IdleShifts
    /\ IdleScore
    /\ IdleCache
    /\ IdleAggregate

\* max_models and the column indices
ReadColumns ==
    /\ phase = "coords" /\ pc = "cols"
    /\ max_models' = last_model_num(cif_rows)
    /\ key_cols' = select_key_cols(auth_tag)
    /\ model' = 1
    /\ cif_i' = 1
    /\ pdb' = EmptyMap
    /\ pc' = "models"
    /\ UNCHANGED <<phase, scoreVars, cacheVars, aggVars, auth_tag, pass, first_result, shiftVars>>
    /\ UNCHANGED <<cif_rows, pdb_models>>

\* one pass of "for dat in atom_site.getRowList()" for the current model
ProcessCifRow ==
    /\ phase = "coords" /\ pc = "models"
    /\ model <= max_models
    /\ cif_i <= Len(cif_rows)
    /\ LET dat == cif_rows[cif_i]
       IN  pdb' = IF is_needed_row(dat) /\ dat.pdbx_PDB_model_num = model
                    THEN Put(pdb, coord_key(dat, key_cols), dat.Cartn)
                    ELSE pdb
    /\ cif_i' = cif_i + 1
    /\ UNCHANGED <<phase, pc, scoreVars, cacheVars, aggVars, auth_tag, pass, first_result, shiftVars>>
    /\ UNCHANGED <<cif_rows, max_models, key_cols, model, pdb_models>>

\* pdb_models[model] = pdb, and the next model
EndModel ==
    /\ phase = "coords" /\ pc = "models"
    /\ model <= max_models
    /\ cif_i > Len(cif_rows)
    /\ pdb_models' = Put(pdb_models, model, pdb)
    /\ model' = model + 1
    /\ cif_i' = 1
    /\ pdb' = EmptyMap
    /\ UNCHANGED <<phase, pc, scoreVars, cacheVars, aggVars, auth_tag, pass, first_result, shiftVars>>
    /\ UNCHANGED <<cif_rows, max_models, key_cols>>

\* return pdb_models
ReturnCoords ==
    /\ phase = "coords" /\ pc = "models"
    /\ model > max_models
    /\ pc' = "done"
    /\ UNCHANGED <<phase, scoreVars, cacheVars, aggVars, extractVars>>

InitExtract == InitShifts \/ InitCoords

NextExtract ==
    \/ ReadTags
    \/ ProcessShiftRow
    \/ ReturnShifts
    \/ ReadColumns
    \/ ProcessCifRow
    \/ EndModel
    \/ ReturnCoords

SpecExtract == InitExtract /\ [][NextExtract]_vars

(***************************************************************************)
(* A second call of the same extractor on the same rows in another order:  *)
(* what pass 1 returned is kept, the rows are permuted, the call starts    *)
(* over.                                                                   *)
(***************************************************************************)
Reordered(rows) ==
    {[i \in 1..Len(rows) |-> rows[p[i]]] : p \in Permutations(1..Len(rows))}

ReorderShifts ==
    /\ phase = "shifts" /\ pc = "done" /\ pass = 1
    /\ Len(cs_input) >= 1
    /\ \E rows \in Reordered(cs_input) :
        /\ cs_input' = rows
        /\ cs_data' = rows
    /\ first_result' = <<amide_cs, aromatic_cs>>
    /\ pass' = 2
    /\ pc' = "tags"
    /\ cs_i' = 1
    /\ tag_ids' = NoIds
    /\ amide_cs' = EmptyMap
    /\ aromatic_cs' = EmptyMap
    /\ UNCHANGED <<phase, scoreVars, cacheVars, aggVars, auth_tag, coordVars>>

ReorderCoords ==
    /\ phase = "coords" /\ pc = "done" /\ pass = 1
    /\ cif_rows' \in Reordered(cif_rows)
    /\ first_result' = pdb_models
    /\ pass' = 2
    /\ pc' = "cols"
    /\ max_models' = 0
    /\ key_cols' = <<>>
    /\ model' = 1
    /\ cif_i' = 1
    /\ pdb' = EmptyMap
    /\ pdb_models' = EmptyMap
    /\ UNCHANGED <<phase, scoreVars, cacheVars, aggVars, auth_tag, shiftVars>>

NextReorder == NextExtract \/ ReorderShifts \/ ReorderCoords

SpecReorder == InitExtract /\ [][NextReorder]_vars

(***************************************************************************)
(* The per-entry cache: get_protein, build_protein, dump_protein,          *)
(* load_protein.  A Python value is a record tagged with its type; a file  *)
(* holds JSON text, a record tagged "json".                                *)
(***************************************************************************)
\* the (pdb_id, bmrb_id) pairs of the batch: one structure deposited with two
\* sets of shifts
Entries == {<<"1WYO", "11086">>, <<"1WYO", "16907">>}

\* mutant: the file named after the structure alone
filename_by_pdb(pdb_id, bmrb_id) == <<"proteins", pdb_id>>

\* os.path.join("proteins", f"{pdb_id}_{bmrb_id}.json")
filename(pdb_id, bmrb_id) == <<"proteins", pdb_id, bmrb_id>>

PyStr(s) == [type |-> "str", s |-> s]

Raise(s) == [type |-> "raise", err |-> s]

None == [type |-> "NoneType"]

\* str(i) and int(s) of the small indices the models use
Digits == <<"0", "1", "2", "3", "4", "5", "6", "7", "8", "9">>

IntStr(i) == Digits[i + 1]

StrInt(d) == CHOOSE i \in 0..9 : Digits[i + 1] = d

\* a dict keyed by integers written with string keys, and back
StrKeys(f) == [k \in {IntStr(i) : i \in DOMAIN f} |-> f[StrInt(k)]]

IntKeys(f) == [i \in {StrInt(k) : k \in DOMAIN f} |-> f[IntStr(i)]]

\* the Protein make_protein_from_file builds for an entry: amides and rings
\* positioned and paired, no restraint evidence yet
SkeletonProtein(e) ==
    [type |-> "Protein", pdb_id |-> e[1], bmrb_id |-> e[2],
     amides |-> <<[res_index |-> 3, res_label |-> "PHE", cs_sigma |-> 1589],
                  [res_index |-> 7, res_label |-> "ALA", cs_sigma |-> 0 - 336]>>,
     aromatics |-> <<[res_index |-> 5, res_label |-> "TYR"]>>,
     pairs_dict |-> [a \in {3} |-> [r \in {5} |-> <<>>]],
     exceptions_map_residues |-> [i \in {7} |-> "ResidueIndexMismatch"],
     exceptions_map_restraints |-> EmptyMap]

\* the same Protein after add_restraints: evidence attached, one restraint
\* rejected
RestrainedProtein(e) ==
    [SkeletonProtein(e) EXCEPT
        !.pairs_dict = [a \in {3} |-> [r \in {5} |-> <<<<"HE1", "defined">>>>]],
        !.exceptions_map_restraints = [i \in {2} |-> "Unable to match residues"]]

\* a Protein with nothing in it
BareProtein(e) ==
    [type |-> "Protein", pdb_id |-> e[1], bmrb_id |-> e[2],
     amides |-> <<>>, aromatics |-> <<>>, pairs_dict |-> EmptyMap,
     exceptions_map_residues |-> EmptyMap,
     exceptions_map_restraints |-> EmptyMap]

\* what make_protein_from_file(k_file_path) can come back with
make_protein_outcomes(e) ==
    {SkeletonProtein(e), BareProtein(e),
     PyStr("No aromatic residues in sequence"),
     Raise("mmCIF file not in reboxitory")}

\* what add_restraints(protein) can come back with
add_restraints_outcomes(p) ==
    {IF p.amides = <<>> THEN p ELSE RestrainedProtein(<<p.pdb_id, p.bmrb_id>>),
     PyStr("No pairs found"),
     Raise("Misformatted restraint file")}

isinstance_Protein(x) == x.type = "Protein"

isinstance_str(x) == x.type = "str"

\* Protein.dump(): the model as a dict of lists and string-keyed dicts
Protein_dump(p) ==
    [type |-> "dict", pdb_id |-> p.pdb_id, bmrb_id |-> p.bmrb_id,
     amides |-> p.amides, aromatics |-> p.aromatics,
     pairs_dict |-> StrKeys([a \in DOMAIN p.pairs_dict |->
                                StrKeys(p.pairs_dict[a])]),
     exceptions_map_residues |-> StrKeys(p.exceptions_map_residues),
     exceptions_map_restraints |-> StrKeys(p.exceptions_map_restraints)]

\* Protein.load(dump_dict); anything but a dict raises
Protein_load(d) ==
    IF d.type # "dict" THEN Raise("Protein.load")
    ELSE
    [type |-> "Protein", pdb_id |-> d.pdb_id, bmrb_id |-> d.bmrb_id,
     amides |-> d.amides, aromatics |-> d.aromatics,
     pairs_dict |-> [a \in DOMAIN IntKeys(d.pairs_dict) |->
                        IntKeys(IntKeys(d.pairs_dict)[a])],
     exceptions_map_residues |-> IntKeys(d.exceptions_map_residues),
     exceptions_map_restraints |-> IntKeys(d.exceptions_map_restraints)]

\* json.dump(obj, dumpfile): the text written; a Protein object is not
\* serializable
json_dump(x) ==
    IF x.type = "str" THEN [json |-> "string", text |-> x.s]
    ELSE IF x.type = "dict" THEN [json |-> "object", text |-> x]
    ELSE IF x.type = "NoneType" THEN [json |-> "null"]
    ELSE Raise("TypeError")

\* a file that open(filename, 'w') has emptied and nothing was written to
Truncated == [json |-> "truncated"]

\* json.load(dumpfile): the value read, or what is raised on a text that is
\* no JSON document
json_load(t) ==
    IF t.json = "string" THEN PyStr(t.text)
    ELSE IF t.json = "object" THEN t.text
    ELSE IF t.json = "null" THEN None
    ELSE Raise("Expecting value: line 1 column 1 (char 0)")

\* mutant: the isinstance(dump_dict, str) test of load_protein dropped
load_protein_no_str(fs, pdb_id, bmrb_id) ==
    Protein_load(json_load(fs[filename(pdb_id, bmrb_id)]))

\* load_protein(pdb_id, bmrb_id) on the directory fs: the value returned,
\* or what is raised
load_protein(fs, pdb_id, bmrb_id) ==
    LET name == filename(pdb_id, bmrb_id)
    IN  IF name \notin DOMAIN fs THEN Raise("FileNotFoundError")
        ELSE LET dump_dict == json_load(fs[name])
             IN  IF dump_dict.type = "raise" THEN dump_dict
                 ELSE IF isinstance_str(dump_dict) THEN dump_dict
                 ELSE Protein_load(dump_dict)

\* mutant: nothing is written for a Protein
dump_protein_skip(fs, p) == fs

\* dump_protein(protein): the directory afterwards
dump_protein(fs, p) ==
    Put(fs, filename(p.pdb_id, p.bmrb_id), json_dump(Protein_dump(p)))

\* mutant: what add_restraints comes back with is returned whatever
\* make_protein_from_file returned
build_protein_always_restrain(made, restrained) ==
    IF made.type = "raise" THEN made ELSE restrained

\* build_protein(pdb_id, bmrb_id), given what make_protein_from_file and
\* add_restraints come back with
build_protein(made, restrained) ==
    IF made.type = "raise" THEN made
    ELSE IF isinstance_Protein(made) THEN restrained
    ELSE made

\* the text get_protein writes for the value v: the dump of a Protein, the
\* string itself otherwise
serialized(v) ==
    IF isinstance_Protein(v) THEN json_dump(Protein_dump(v)) ELSE json_dump(v)

\* mutant: every call builds
builds_protein_always(exists, anyway) == TRUE

\* get_protein's choice between build_protein and load_protein
builds_protein(exists, anyway) ==
    IF exists THEN (IF anyway THEN TRUE ELSE FALSE) ELSE TRUE

\* the history of an entry no call was made for
NoAudit ==
    [existed |-> FALSE, cached |-> None, prev |-> None, after |-> "never",
     builds |-> 0,
     made |-> None, attached |-> FALSE, raised |-> "none",
     outcome |-> "never", torn |-> FALSE]

InitCache ==
    /\ phase = "cache"
    /\ pc = "run"
    /\ files = EmptyMap
    /\ gp_pc = [e \in Entries |-> "idle"]
    /\ build_anyway = [e \in Entries |-> FALSE]
    /\ protein = [e \in Entries |-> None]
    /\ via = [e \in Entries |-> "none"]
    /\ persisted = [e \in Entries |-> None]
    /\ result = [e \in Entries |-> None]
    /\ audit = [e \in Entries |-> NoAudit]
    /\ IdleScore
    /\ IdleExtract
    /\ IdleAggregate

\* get_protein(pdb_id, bmrb_id, build_anyway) is called for entry e
CallGetProtein(e) ==
    /\ phase = "cache" /\ gp_pc[e] = "idle"
    /\ \E b \in BOOLEAN : build_anyway' = [build_anyway EXCEPT ![e] = b]
    /\ gp_pc' = [gp_pc EXCEPT ![e] = "called"]
    /\ protein' = [protein EXCEPT ![e] = None]
    /\ via' = [via EXCEPT ![e] = "none"]
    /\ audit' = [audit EXCEPT ![e] =
           [NoAudit EXCEPT
               !.existed = filename(e[1], e[2]) \in DOMAIN files,
               !.cached = IF filename(e[1], e[2]) \in DOMAIN files
                              THEN files[filename(e[1], e[2])] ELSE None,
               !.prev = result[e],
               !.after = audit[e].outcome,
               !.outcome = "running",
               !.torn = audit[e].torn]]
    /\ result' = [result EXCEPT ![e] = None]
    /\ UNCHANGED <<phase, pc, scoreVars, extractVars, aggVars, files, persisted>>

\* the branch with build_protein: file absent, or build_anyway
BuildProtein(e) ==
    /\ phase = "cache" /\ gp_pc[e] = "called"
    /\ builds_protein(filename(e[1], e[2]) \in DOMAIN files, build_anyway[e])
    /\ \E made \in make_protein_outcomes(e) :
        \E restrained \in
            (IF isinstance_Protein(made) THEN add_restraints_outcomes(made)
             ELSE {None}) :
            LET got == build_protein(made, restrained)
            IN  /\ protein' = [protein EXCEPT ![e] = got]
                /\ gp_pc' = [gp_pc EXCEPT
                       ![e] = IF got.type = "raise" THEN "except" ELSE "store"]
                /\ audit' = [audit EXCEPT
                       ![e].builds = @ + 1,
                       ![e].made = made,
                       ![e].attached = isinstance_Protein(made),
                       ![e].raised = IF got.type = "raise" THEN got.err
                                     ELSE "none"]
    /\ via' = [via EXCEPT ![e] = "build"]
    /\ UNCHANGED <<phase, pc, scoreVars, extractVars, aggVars>>
    /\ UNCHANGED <<files, build_anyway, persisted, result>>

\* the branch with load_protein: file present and not build_anyway
LoadProtein(e) ==
    /\ phase = "cache" /\ gp_pc[e] = "called"
    /\ ~ builds_protein(filename(e[1], e[2]) \in DOMAIN files, build_anyway[e])
    /\ LET got == load_protein(files, e[1], e[2])
       IN  /\ protein' = [protein EXCEPT ![e] = got]
           /\ gp_pc' = [gp_pc EXCEPT
                  ![e] = IF got.type = "raise" THEN "except" ELSE "store"]
           /\ audit' = [audit EXCEPT
                  ![e].raised = IF got.type = "raise" THEN got.err ELSE "none"]
    /\ via' = [via EXCEPT ![e] = "load"]
    /\ UNCHANGED <<phase, pc, scoreVars, extractVars, aggVars>>
    /\ UNCHANGED <<files, build_anyway, persisted, result>>

\* dump_protein(protein) for a Protein, json.dump(protein, dumpfile) otherwise
StoreProtein(e) ==
    /\ phase = "cache" /\ gp_pc[e] = "store"
    /\ files' = IF isinstance_Protein(protein[e])
                    THEN dump_protein(files, protein[e])
                    ELSE Put(files, filename(e[1], e[2]), json_dump(protein[e]))
    /\ persisted' = [persisted EXCEPT ![e] = protein[e]]
    /\ audit' = [audit EXCEPT ![e].torn = FALSE]
    /\ gp_pc' = [gp_pc EXCEPT ![e] = "return"]
    /\ UNCHANGED <<phase, pc, scoreVars, extractVars, aggVars>>
    /\ UNCHANGED <<build_anyway, protein, via, result>>

\* except Exception as err: protein = str(err), and the string is stored
ExceptProtein(e) ==
    /\ phase = "cache" /\ gp_pc[e] = "except"
    /\ LET msg == PyStr(protein[e].err)
       IN  /\ protein' = [protein EXCEPT ![e] = msg]
           /\ files' = Put(files, filename(e[1], e[2]), json_dump(msg))
           /\ persisted' = [persisted EXCEPT ![e] = msg]
    /\ audit' = [audit EXCEPT ![e].torn = FALSE]
    /\ gp_pc' = [gp_pc EXCEPT ![e] = "return"]
    /\ UNCHANGED <<phase, pc, scoreVars, extractVars, aggVars>>
    /\ UNCHANGED <<build_anyway, via, result>>

\* return protein; the call's arguments and locals are gone with it
ReturnProtein(e) ==
    /\ phase = "cache" /\ gp_pc[e] = "return"
    /\ result' = [result EXCEPT ![e] = protein[e]]
    /\ audit' = [audit EXCEPT ![e] = [NoAudit EXCEPT !.outcome = "returned",
                                                     !.torn = audit[e].torn]]
    /\ gp_pc' = [gp_pc EXCEPT ![e] = "idle"]
    /\ protein' = [protein EXCEPT ![e] = None]
    /\ via' = [via EXCEPT ![e] = "none"]
    /\ build_anyway' = [build_anyway EXCEPT ![e] = FALSE]
    /\ UNCHANGED <<phase, pc, scoreVars, extractVars, aggVars>>
    /\ UNCHANGED <<files, persisted>>

NextCache ==
    \E e \in Entries :
        \/ CallGetProtein(e)
        \/ BuildProtein(e)
        \/ LoadProtein(e)
        \/ StoreProtein(e)
        \/ ExceptProtein(e)
        \/ ReturnProtein(e)

SpecCache == InitCache /\ [][NextCache]_vars

(***************************************************************************)
(* The calls of a batch run in parallel, one worker per entry, and a       *)
(* worker can be abandoned in flight.                                      *)
(***************************************************************************)
\* the worker running get_protein for entry e is abandoned: nothing is
\* returned; when it was about to write its file, the file may be left as
\* open(filename, 'w') made it, empty
AbandonEntry(e) ==
    /\ phase = "cache" /\ gp_pc[e] # "idle"
    /\ \E tear \in (IF gp_pc[e] \in {"store", "except"} THEN BOOLEAN ELSE {FALSE}) :
        /\ files' = IF tear THEN Put(files, filename(e[1], e[2]), Truncated)
                    ELSE files
        /\ persisted' = IF tear THEN [persisted EXCEPT ![e] = None]
                        ELSE persisted
        /\ audit' = [audit EXCEPT
               ![e] = [NoAudit EXCEPT !.outcome = "abandoned",
                                      !.torn = tear \/ audit[e].torn]]
    /\ gp_pc' = [gp_pc EXCEPT ![e] = "idle"]
    /\ protein' = [protein EXCEPT ![e] = None]
    /\ via' = [via EXCEPT ![e] = "none"]
    /\ build_anyway' = [build_anyway EXCEPT ![e] = FALSE]
    /\ UNCHANGED <<phase, pc, scoreVars, extractVars, aggVars>>
    /\ UNCHANGED result

\* what the cache file of entry e holds, None when there is no file
cache_file(e) ==
    IF filename(e[1], e[2]) \in DOMAIN files THEN files[filename(e[1], e[2])]
    ELSE None

NextParallel ==
    \/ NextCache
    \/ \E e \in Entries : AbandonEntry(e)

SpecParallel == InitCache /\ [][NextParallel]_vars

(***************************************************************************)
(* The result stages: print_result_stages of noe_analysis.py and of        *)
(* survey/noe_analysis.py, with results_a, results_b, results_c.  The      *)
(* nested dicts keyed by pdb_id and then bmrb_id are one map keyed by the  *)
(* entry.                                                                  *)
(***************************************************************************)
\* a Protein with a pair whose only evidence is ambiguous, a pair with mixed
\* evidence, an outlier amide, and a reason that both of its logs hold
AmbiguousProtein(e) ==
    [type |-> "Protein", pdb_id |-> e[1], bmrb_id |-> e[2],
     amides |-> <<[res_index |-> 3, res_label |-> "PHE", cs_sigma |-> 2411],
                  [res_index |-> 7, res_label |-> "ALA", cs_sigma |-> 0 - 336]>>,
     aromatics |-> <<[res_index |-> 5, res_label |-> "TYR"]>>,
     pairs_dict |-> [a \in {3, 7} |->
                        IF a = 3
                            THEN [r \in {5} |-> <<<<"HE1", "undefined">>,
                                                  <<"HD1", "defined">>>>]
                            ELSE [r \in {5} |-> <<<<"HZ", "undefined">>>>]],
     exceptions_map_residues |-> [i \in {7} |-> "ResidueIndexMismatch"],
     exceptions_map_restraints |->
         [i \in {2, 4, 6} |-> IF i = 6 THEN "ResidueIndexMismatch"
                              ELSE "Unable to match residues"]]

\* Protein.prune_undefined_pairs(): the evidence tagged undefined leaves every
\* list; a pair left without evidence stays, with an empty list
prune_undefined_pairs(p) ==
    [p EXCEPT !.pairs_dict =
        [a \in DOMAIN p.pairs_dict |->
            [r \in DOMAIN p.pairs_dict[a] |->
                SelectSeq(p.pairs_dict[a][r],
                          LAMBDA atom : atom[2] # "undefined")]]]

\* what get_proteins_dict_multi can hand over for one entry: a Protein, or
\* the reason the entry failed with
EntryKinds == {"restrained", "ambiguous", "bare", "No pairs found",
               "mmCIF file not in reboxitory"}

EntryOutcome(e, kind) ==
    CASE kind = "restrained" -> RestrainedProtein(e)
      [] kind = "ambiguous" -> AmbiguousProtein(e)
      [] kind = "bare" -> BareProtein(e)
      [] OTHER -> PyStr(kind)

\* the items the loops over one of the two logs of every Protein visit:
\* (entry, key, reason)
logged(pd, log) ==
    UNION {{<<e, i, pd[e][log][i]>> : i \in DOMAIN pd[e][log]} : e \in DOMAIN pd}

\* the items the loop over exceptions_map_entries visits
failed(eme) == {<<e, e, eme[e]>> : e \in DOMAIN eme}

\* if reason not in d: d[reason] = 0;  d[reason] += 1
count_reason(d, reason) ==
    IF reason \in DOMAIN d THEN [d EXCEPT ![reason] = @ + 1]
    ELSE Put(d, reason, 1)

\* the counting loop over a set of items, started from the dict d
RECURSIVE count_all(_, _)
count_all(d, items) ==
    IF items = {} THEN d
    ELSE LET it == CHOOSE x \in items : TRUE
         IN  count_all(count_reason(d, it[3]), items \ {it})

\* the pairs of a pairs_dict: (amide, aromatic residue)
pairs_of(p) ==
    UNION {{<<a, r>> : r \in DOMAIN p.pairs_dict[a]} : a \in DOMAIN p.pairs_dict}

\* atom_amide.cs_sigma of the amide a pair is keyed by
amide_cs_sigma(p, a) ==
    LET m == CHOOSE i \in DOMAIN p.amides : p.amides[i].res_index = a
    IN  p.amides[m].cs_sigma

\* results_a: num_entries and num_pairs
results_a_counts(pd) ==
    [num_entries |-> Cardinality(DOMAIN pd),
     num_pairs |-> Cardinality(UNION {{<<e, pr>> : pr \in pairs_of(pd[e])} :
                                        e \in DOMAIN pd})]

\* results_b and results_c: protein.prune_undefined_pairs() of every Protein
results_b_prune_reset(pd) ==
    [e \in DOMAIN pd |->
        [prune_undefined_pairs(pd[e]) EXCEPT !.exceptions_map_restraints = EmptyMap]]

results_b_prune(pd) == [e \in DOMAIN pd |-> prune_undefined_pairs(pd[e])]

\* the pairs that have evidence: len(atoms_aroma) != 0
defined_pairs(pd) ==
    UNION {{<<e, pr>> : pr \in {q \in pairs_of(pd[e]) :
                                   Len(pd[e].pairs_dict[q[1]][q[2]]) # 0}} :
           e \in DOMAIN pd}

\* results_b of noe_analysis.py: num_pairs
results_b_counts(pd) == [num_pairs |-> Cardinality(defined_pairs(pd))]

\* results_b of survey/noe_analysis.py: num_pairs and the outlier counts
survey_results_b_counts(pd) ==
    LET down == {x \in defined_pairs(pd) :
                    amide_cs_sigma(pd[x[1]], x[2][1]) >= 2000}
        up == {x \in defined_pairs(pd) :
                    /\ ~ (amide_cs_sigma(pd[x[1]], x[2][1]) >= 2000)
                    /\ amide_cs_sigma(pd[x[1]], x[2][1]) <= 0 - 2000}
    IN  [num_pairs |-> Cardinality(defined_pairs(pd)),
         num_pairs_w_outlier |-> Cardinality(down) + Cardinality(up),
         num_outliers_upfield |-> Cardinality(up),
         num_outliers_downfield |-> Cardinality(down),
         entries_set |-> {x[1] : x \in defined_pairs(pd)}]

\* results_c: the number of pairs with evidence per shift class, at the
\* outlier_sigma of print_result_stages(2); the tier and the ring label come
\* from get_confidence_tier and are summed over here
results_c_counts(pd) ==
    [sc \in {"upfield", "downfield", "non_outlier"} |->
        Cardinality({x \in defined_pairs(pd) :
            classify_shift(amide_cs_sigma(pd[x[1]], x[2][1]), 2000) = sc})]

InitAggregate ==
    /\ phase = "aggregate"
    /\ pc = "loaded"
    /\ script \in {"noe_analysis", "survey"}
    /\ \E kinds \in [Entries -> EntryKinds] :
        LET got == [e \in Entries |-> EntryOutcome(e, kinds[e])]
        IN  /\ proteins_dict =
                   [e \in {x \in Entries : isinstance_Protein(got[x])} |-> got[e]]
            /\ exceptions_map_entries =
                   [e \in {x \in Entries : ~ isinstance_Protein(got[x])} |-> got[e].s]
    /\ loaded_dict = proteins_dict
    /\ reasons_dict = EmptyMap
    /\ printed = EmptyMap
    /\ IdleScore
    /\ IdleExtract
    /\ IdleCache

\* noe_analysis.py print_result_stages: reasons_dict = {}, the loop over
\* exceptions_map_residues, print(reasons_dict)
PrintResidueReasons ==
    /\ phase = "aggregate" /\ script = "noe_analysis" /\ pc = "loaded"
    /\ reasons_dict' =
           count_all(EmptyMap, logged(proteins_dict, "exceptions_map_residues"))
    /\ printed' = Put(printed, "residues", reasons_dict')
    /\ pc' = "residues_printed"
    /\ UNCHANGED <<phase, scoreVars, extractVars, cacheVars>>
    /\ UNCHANGED <<script, proteins_dict, exceptions_map_entries, loaded_dict>>

\* noe_analysis.py print_result_stages: the loop over
\* exceptions_map_restraints, into the same reasons_dict, print(reasons_dict)
PrintRestraintReasons ==
    /\ phase = "aggregate" /\ script = "noe_analysis" /\ pc = "residues_printed"
    /\ reasons_dict' =
           count_all(reasons_dict,
                     logged(proteins_dict, "exceptions_map_restraints"))
    /\ printed' = Put(printed, "restraints", reasons_dict')
    /\ pc' = "reasons_printed"
    /\ UNCHANGED <<phase, scoreVars, extractVars, cacheVars>>
    /\ UNCHANGED <<script, proteins_dict, exceptions_map_entries, loaded_dict>>

\* results_a(proteins_dict, exceptions_map_entries), of either script
ResultsA ==
    /\ phase = "aggregate"
    /\ \/ script = "noe_analysis" /\ pc = "reasons_printed"
       \/ script = "survey" /\ pc = "loaded"
    /\ printed' = Put(Put(printed, "entries",
                          count_all(EmptyMap, failed(exceptions_map_entries))),
                      "A", results_a_counts(proteins_dict))
    /\ pc' = "a_done"
    /\ UNCHANGED <<phase, scoreVars, extractVars, cacheVars>>
    /\ UNCHANGED <<script, proteins_dict, exceptions_map_entries, loaded_dict,
                   reasons_dict>>

\* results_b(proteins_dict) of noe_analysis.py
ResultsB ==
    /\ phase = "aggregate" /\ script = "noe_analysis" /\ pc = "a_done"
    /\ proteins_dict' = results_b_prune(proteins_dict)
    /\ printed' = Put(printed, "B", results_b_counts(proteins_dict'))
    /\ pc' = "b_done"
    /\ UNCHANGED <<phase, scoreVars, extractVars, cacheVars>>
    /\ UNCHANGED <<script, exceptions_map_entries, loaded_dict, reasons_dict>>

\* results_b(proteins_dict) of survey/noe_analysis.py, which ends with
\* print_restraint_exceptions(proteins_dict); the script ends here
SurveyResultsB ==
    /\ phase = "aggregate" /\ script = "survey" /\ pc = "a_done"
    /\ proteins_dict' = results_b_prune(proteins_dict)
    /\ printed' =
           Put(Put(printed, "B", survey_results_b_counts(proteins_dict')),
               "restraints",
               count_all(EmptyMap,
                         logged(proteins_dict', "exceptions_map_restraints")))
    /\ pc' = "done"
    /\ UNCHANGED <<phase, scoreVars, extractVars, cacheVars>>
    /\ UNCHANGED <<script, exceptions_map_entries, loaded_dict, reasons_dict>>

\* results_c(proteins_dict, outlier_sigma) of noe_analysis.py
ResultsC ==
    /\ phase = "aggregate" /\ script = "noe_analysis" /\ pc = "b_done"
    /\ proteins_dict' = results_b_prune(proteins_dict)
    /\ printed' = Put(printed, "C", results_c_counts(proteins_dict'))
    /\ pc' = "done"
    /\ UNCHANGED <<phase, scoreVars, extractVars, cacheVars>>
    /\ UNCHANGED <<script, exceptions_map_entries, loaded_dict, reasons_dict>>

NextAggregate ==
    \/ PrintResidueReasons
    \/ PrintRestraintReasons
    \/ ResultsA
    \/ ResultsB
    \/ SurveyResultsB
    \/ ResultsC

SpecAggregate == InitAggregate /\ [][NextAggregate]_vars

(***************************************************************************)
(* Claims about scoring and classification (SpecScore).                    *)
(***************************************************************************)

\* C1: classify_shift is total: whatever cs_sigma and outlier_sigma it is
\* given, the value it returns is one of 'upfield', 'downfield',
\* 'non_outlier'; it never falls through its three branches.
C1_ClassifyTotal ==
    pc = "classified" => shift_class \in ShiftClasses

\* C1 witness: a classified amide that sits on the lower boundary, the case
\* the first branch has to catch.
C1_Witness ==
    /\ pc = "classified"
    /\ outlier_sigma > 0
    /\ cs_sigma = 0 - outlier_sigma
    /\ shift_class = "upfield"

C3_UnknownResidueZero ==
    (pc # "start" /\ scorer \in {"get_z_score", "get_z_score_full"}
        /\ res \notin ReferenceResidues)
    => cs_sigma = 0

\* C3 witness: get_z_score_full has scored an unknown residue whose shift
\* is far from every table mean, and returned 0.
C3_Witness ==
    /\ pc = "scored"
    /\ scorer = "get_z_score_full"
    /\ res = "UNK"
    /\ amide_cs_val = 9500
    /\ cs_sigma = 0

\* C4: for a residue r of the table and a shift v, the returned Z-score is
\* (v - mean[r]) / sd[r] rounded to 3 decimals, mean and sd taken from the
\* table of the function that was called: the result z is an integer number
\* of thousandths within half a thousandth of the exact quotient, that is
\* 2 * |1000 * (v - mean[r]) - z * sd[r]| <= sd[r].
C4_ZScoreRounded ==
    /\ (pc # "start" /\ scorer = "get_z_score_full" /\ res \in ReferenceResidues)
        => 2 * Abs(1000 * (amide_cs_val - m_full[res]) - cs_sigma * sd_full[res])
              <= sd_full[res]
    /\ (pc # "start" /\ scorer = "get_z_score" /\ res \in ReferenceResidues)
        => 2 * Abs(1000 * (amide_cs_val - m_short[res]) - cs_sigma * sd_short[res])
              <= sd_short[res]

\* C4 witness: a table residue scored by get_z_score_full where the exact
\* quotient is no multiple of 0.001, so that rounding did something, and
\* the result is negative (the shift lies below the mean).
C4_Witness ==
    /\ pc = "scored"
    /\ scorer = "get_z_score_full"
    /\ res \in ReferenceResidues
    /\ (1000 * (amide_cs_val - m_full[res])) % sd_full[res] # 0
    /\ cs_sigma < 0

\* C5 as stated: PHE with shift 9.5 against mean 8.337 / sd 0.732 (the table
\* of get_z_score_full) gets cs_sigma 1.588, and classify_shift of it with
\* outlier_sigma 1.5 is 'downfield'.
C5_Original ==
    (pc # "start" /\ scorer = "get_z_score_full" /\ res = "PHE"
        /\ amide_cs_val = 9500)
    => /\ cs_sigma = 1588
       /\ (pc = "classified" /\ outlier_sigma = 1500
            => shift_class = "downfield")

\* C5 amended: PHE with shift 9.5 against mean 8.337 / sd 0.732 gets
\* cs_sigma 1.589, which is round((9.5 - 8.337) / 0.732, 3), and
\* classify_shift of it with outlier_sigma 1.5 is 'downfield'.
C5_Scenario1 ==
    (pc # "start" /\ scorer = "get_z_score_full" /\ res = "PHE"
        /\ amide_cs_val = 9500)
    => /\ cs_sigma = 1589
       /\ (pc = "classified" /\ outlier_sigma = 1500
            => shift_class = "downfield")

\* C5 witness: the scenario has run to its end.
C5_Witness ==
    /\ pc = "classified"
    /\ scorer = "get_z_score_full"
    /\ res = "PHE"
    /\ amide_cs_val = 9500
    /\ outlier_sigma = 1500
    /\ shift_class = "downfield"

(***************************************************************************)
(* Claims about the extractors (SpecExtract, SpecReorder).                 *)
(***************************************************************************)
\* the convention a column belongs to: author-provided or internal/label
Convention(col) ==
    IF col \in {"Auth_seq_ID", "Auth_asym_ID", "auth_seq_id", "auth_asym_id",
                "auth_comp_id", "auth_atom_id"}
        THEN "author"
        ELSE "label"

\* C7 as stated: for either value of the flag, passed to both extractors,
\* every component of every key of get_chemical_shifts and of
\* get_coordinates comes from one and the same convention: the columns the
\* two key tuples are built from all belong to the author convention or all
\* to the label convention.
C7_OneConvention ==
    LET shift_ids == IF phase = "shifts" THEN tag_ids ELSE select_tags(auth_tag)
        coord_cols == IF phase = "coords" THEN key_cols
                      ELSE select_key_cols(auth_tag)
        used == {shift_ids.id1, shift_ids.id2, shift_ids.id3, shift_ids.id4}
                    \cup {coord_cols[i] : i \in 1..Len(coord_cols)}
    IN  (phase \in {"shifts", "coords"} /\ pc \notin {"tags", "cols"})
            => Cardinality({Convention(c) : c \in used}) = 1

C9_RetentionRule ==
    LET n == Len(cif_rows)
        rows == {cif_rows[i] : i \in 1..n}
        cols == select_key_cols(auth_tag)
        key(r) == <<r[cols[1]], r[cols[2]], r[cols[3]], r[cols[4]]>>
        wanted(r) == \/ r.label_atom_id = "H"
                     \/ r.label_comp_id \in {"PHE", "TYR", "TRP", "HIS"}
    IN  (phase = "coords" /\ pc = "done") =>
          /\ \A mn \in DOMAIN pdb_models : \A k \in DOMAIN pdb_models[mn] :
                \/ k[4] = "H"
                \/ k[3] \in {"PHE", "TYR", "TRP", "HIS"}
          /\ \A r \in {x \in rows : wanted(x)} :
                /\ r.pdbx_PDB_model_num \in DOMAIN pdb_models
                /\ key(r) \in DOMAIN pdb_models[r.pdbx_PDB_model_num]
          /\ \A mn \in DOMAIN pdb_models : \A k \in DOMAIN pdb_models[mn] :
                \E r \in {x \in rows : wanted(x)} :
                    key(r) = k /\ r.pdbx_PDB_model_num = mn

\* C10 as stated: the amide map, the aromatic map and the per-model
\* coordinate map extracted from the rows of an entry in any other order are
\* identical to those extracted from the rows in the original order.
C10_OrderInvariance ==
    (pc = "done" /\ pass = 2) =>
        /\ (phase = "shifts" => <<amide_cs, aromatic_cs>> = first_result)
        /\ (phase = "coords" => pdb_models = first_result)

C13_AuditReport ==
    pc = "done" =>
        LET residues == logged(loaded_dict, "exceptions_map_residues")
            restraints == logged(loaded_dict, "exceptions_map_restraints")
            entries == failed(exceptions_map_entries)
            reports(name, items) ==
                \A it \in items :
                    /\ name \in DOMAIN printed
                    /\ it[3] \in DOMAIN printed[name]
                    /\ printed[name][it[3]] =
                           Cardinality({x \in items : x[3] = it[3]})
        IN  /\ reports("entries", entries)
            /\ reports("residues", residues)
            /\ reports("restraints", restraints)


(***************************************************************************)
(* Claims about get_protein calls, run in parallel and abandoned           *)
(* (SpecParallel) or run to their end (SpecCache).                         *)
(***************************************************************************)

\* C12: fatal failures abort and propagate. When make_protein_from_file
\* comes back with a failure reason instead of a Protein, build_protein does
\* not run add_restraints and hands back exactly that reason, and the value
\* get_protein returns for the entry is that reason string. When a build or
\* load step raises, the call still returns, and what it returns is the
\* string of the exception, never a Protein.
C12_FailurePropagates ==
    [][\A e \in Entries :
        /\ (gp_pc[e] = "called" /\ via'[e] = "build"
                /\ isinstance_str(audit'[e].made))
            => (~ audit'[e].attached /\ protein'[e] = audit'[e].made)
        /\ (gp_pc[e] = "return" /\ audit'[e].outcome = "returned")
            => /\ (via[e] = "build" /\ isinstance_str(audit[e].made))
                    => result'[e] = audit[e].made
               /\ audit[e].raised # "none"
                    => result'[e] = PyStr(audit[e].raised)
               /\ isinstance_Protein(result'[e]) \/ isinstance_str(result'[e])
      ]_vars

\* C12 witness: one entry's call is about to return the failure reason that
\* make_protein_from_file gave, and another entry's call is about to return
\* the string of an exception that load_protein raised.
C12_Witness ==
    \E e1, e2 \in Entries :
        /\ gp_pc[e1] = "return" /\ via[e1] = "build"
        /\ isinstance_str(audit[e1].made) /\ protein[e1] = audit[e1].made
        /\ gp_pc[e2] = "return" /\ via[e2] = "load"
        /\ audit[e2].raised # "none" /\ protein[e2] = PyStr(audit[e2].raised)


\* C14: the cache skips re-fusion and failures are not retried. In every
\* call of a sequence of get_protein calls for an entry, build_protein is
\* invoked at most once; it is invoked exactly once when the cache file was
\* absent at the call or build_anyway is true, and not at all when the file
\* existed and build_anyway is false, and such a call returns the value the
\* file held, a model or a failure string alike.
C14_CacheSkipsBuild ==
    [][\A e \in Entries :
        LET skips == audit'[e].existed /\ ~ build_anyway'[e]
        IN  /\ gp_pc'[e] \in {"store", "except", "return"}
                => audit'[e].builds = IF skips THEN 0 ELSE 1
            /\ gp_pc'[e] = "called" => audit'[e].builds = 0
            /\ (gp_pc[e] = "return" /\ audit'[e].outcome = "returned"
                    /\ audit[e].existed /\ ~ build_anyway[e])
                => serialized(result'[e]) = audit[e].cached
      ]_vars

\* C14 witness: a call that found a failure string in the cache file is about
\* to return it without having built, while a call with build_anyway that
\* found a file has built once.
C14_Witness ==
    \E e1, e2 \in Entries :
        /\ gp_pc[e1] = "return" /\ audit[e1].existed /\ ~ build_anyway[e1]
        /\ audit[e1].builds = 0 /\ isinstance_str(protein[e1])
        /\ serialized(protein[e1]) = audit[e1].cached
        /\ gp_pc[e2] = "return" /\ audit[e2].existed /\ build_anyway[e2]
        /\ audit[e2].builds = 1


\* C15: cross-entry independence under parallel execution. In every
\* interleaving of the get_protein calls of distinct entries, abandoned ones
\* included, a step that is not of an entry's own call leaves that entry's
\* cache file, its call's value and its result as they were; the directory
\* holds no file but the entries' own, each file holding what its own
\* entry's calls wrote last (or left empty when abandoned in the write); and
\* a call that loads gets what its own entry's file holds. So each entry
\* ends with the result and the file that its calls alone produce.
C15_Independence ==
    [][/\ \A e \in Entries :
            gp_pc'[e] = gp_pc[e]
                => /\ cache_file(e)' = cache_file(e)
                   /\ result'[e] = result[e]
                   /\ protein'[e] = protein[e]
                   /\ persisted'[e] = persisted[e]
       /\ DOMAIN files' \subseteq {filename(e[1], e[2]) : e \in Entries}
       /\ \A e \in Entries :
            cache_file(e)' = IF audit'[e].torn THEN Truncated
                             ELSE IF persisted'[e] = None THEN None
                             ELSE serialized(persisted'[e])
       /\ \A e \in Entries :
            (gp_pc[e] = "called" /\ via'[e] = "load")
                => protein'[e] = IF audit[e].torn THEN json_load(Truncated)
                                 ELSE persisted[e]
      ]_vars

\* C15 witness: one entry's call was abandoned while writing and left its
\* file empty, while the call of the other entry, which shares the PDB id,
\* is about to return the model it loaded from its own file.
C15_Witness ==
    \E e1, e2 \in Entries :
        /\ e1 # e2
        /\ gp_pc[e1] = "idle" /\ audit[e1].outcome = "abandoned"
        /\ audit[e1].torn /\ cache_file(e1) = Truncated
        /\ gp_pc[e2] = "return" /\ via[e2] = "load"
        /\ isinstance_Protein(protein[e2])
        /\ cache_file(e2) = serialized(protein[e2])


\* C16: cache and result agree. When a get_protein call has returned a
\* value v, built, loaded or made from a caught exception, the entry's cache
\* file exists and holds the serialization of exactly v (the dump of a
\* model, the string itself of a failure), until the entry's next call; and
\* the call that follows a returned call, made with build_anyway false,
\* returns a value equal to v.
C16_CacheAgrees ==
    [][\A e \in Entries :
        /\ (gp_pc'[e] = "idle" /\ audit'[e].outcome = "returned")
            => /\ filename(e[1], e[2]) \in DOMAIN files'
               /\ cache_file(e)' = serialized(result'[e])
        /\ (gp_pc[e] = "return" /\ audit'[e].outcome = "returned"
                /\ audit[e].after = "returned" /\ ~ build_anyway[e])
            => result'[e] = audit[e].prev
      ]_vars

\* C16 witness: a call that follows a returned call, with build_anyway
\* false, is about to return the model the earlier call returned, and the
\* other entry has returned the string of a caught exception, which its
\* file holds.
C16_Witness ==
    \E e1, e2 \in Entries :
        /\ gp_pc[e1] = "return" /\ audit[e1].after = "returned"
        /\ ~ build_anyway[e1] /\ isinstance_Protein(protein[e1])
        /\ protein[e1] = audit[e1].prev
        /\ gp_pc[e2] = "idle" /\ audit[e2].outcome = "returned"
        /\ result[e2] = PyStr("mmCIF file not in reboxitory")
        /\ cache_file(e2) = serialized(result[e2])

====
